---- MODULE Spec2Model ----
(***************************************************************************)
(* A model of RouteStorm.py: the base travel-time matrix, the per-stop     *)
(* weather factor, the weather-adjusted matrix, the TSP solve and the      *)
(* module-level pipeline that prints the result.                           *)
(*                                                                         *)
(* Travel times, distances and weather factors are Python floats and are   *)
(* modelled as such: every float of the model is an IEEE 754 double, and   *)
(* the products, sums and roundings are those of the doubles.              *)
(*                                                                         *)
(* Units of the other values:                                              *)
(*   measurements   1/100 of the provider's unit (0.5 mm is 50)            *)
(*   coordinates    1/10000 degree                                         *)
(*   time strings   "YYYY-MM-DDTHH:00" is the number of whole hours since  *)
(*                  2025-11-10T00:00 UTC                                   *)
(***************************************************************************)
EXTENDS Integers, Sequences, FiniteSets, TLC

VARIABLES
    pc,             \* position of the run
    err,            \* the exception that ended the run, "none" if none
    stops,          \* the stop list handed to build_base_time_matrix
    speed,          \* assumed_speed_kph
    base,           \* base matrix (result of build_base_time_matrix / input of apply)
    responses,      \* the provider's answer for each stop (environment)
    factors,        \* node factors
    weather_adj,    \* result of apply_weather_to_matrix
    time_matrix,    \* argument of solve_tsp
    start_index,    \* argument of solve_tsp
    solution,       \* the routing solution: <<>> (None) or <<tour>>
    order,          \* the route extracted so far
    total_minutes,  \* the total solve_tsp returns
    output,         \* the lines printed so far
    w_resp,         \* get_weather_factor: the provider's answer
    w_when,         \* get_weather_factor: when_iso
    w_result        \* get_weather_factor: the outcome

vars == <<pc, err, stops, speed, base, responses, factors, weather_adj,
          time_matrix, start_index, solution, order, total_minutes, output,
          w_resp, w_when, w_result>>

-----------------------------------------------------------------------------
(* Bounds of the model. *)

MaxHours == 2       \* hours a provider answer lists, and local hours asked for
MaxN == 3           \* largest matrix drawn freely for solve_tsp
MaxAdjN == 2        \* largest matrix drawn for apply_weather_to_matrix
MaxStopList == 3    \* longest stop list drawn for build_base_time_matrix

-----------------------------------------------------------------------------
(* Python values. *)

\* A JSON number v is <<v>>; JSON null (Python None) is <<>>.
Null == <<>>
Num(v) == <<v>>

\* A key of a JSON object: missing, null, or a list.
Absent == [kind |-> "absent", items |-> <<>>]
NullField == [kind |-> "null", items |-> <<>>]
List(s) == [kind |-> "list", items |-> s]

\* Outcome of a call: a value, or the exception it raised.
Ok(v) == [raised |-> "none", value |-> v]
Raise(e) == [raised |-> e, value |-> <<>>]

RECURSIVE SumSeq(_)
SumSeq(s) == IF s = <<>> THEN 0 ELSE Head(s) + SumSeq(Tail(s))

-----------------------------------------------------------------------------
(* Natural numbers of any size: the digits in base Radix, least significant  *)
(* first, no leading zero digit; 0 is <<>>.                                  *)

RadixBits == 15
Radix == 2^RadixBits

RECURSIVE NatDigits(_)
NatDigits(n) == IF n = 0 THEN <<>> ELSE <<n % Radix>> \o NatDigits(n \div Radix)

\* Back to an integer, for a value below 2^31.
RECURSIVE NatValue(_)
NatValue(a) == IF a = <<>> THEN 0 ELSE Head(a) + Radix * NatValue(Tail(a))

RECURSIVE NatTrim(_)
NatTrim(a) ==
    IF a # <<>> /\ a[Len(a)] = 0 THEN NatTrim(SubSeq(a, 1, Len(a) - 1)) ELSE a

RECURSIVE NatAddCarry(_, _, _)
NatAddCarry(a, b, c) ==
    IF a = <<>> /\ b = <<>> THEN (IF c = 0 THEN <<>> ELSE <<c>>)
    ELSE LET x == (IF a = <<>> THEN 0 ELSE Head(a)) + (IF b = <<>> THEN 0 ELSE Head(b)) + c
         IN  <<x % Radix>> \o NatAddCarry(IF a = <<>> THEN <<>> ELSE Tail(a),
                                          IF b = <<>> THEN <<>> ELSE Tail(b),
                                          x \div Radix)

NatAdd(a, b) == NatAddCarry(a, b, 0)

RECURSIVE NatSubBorrow(_, _, _)
NatSubBorrow(a, b, c) ==
    IF a = <<>> THEN <<>>
    ELSE LET x == Head(a) - (IF b = <<>> THEN 0 ELSE Head(b)) - c
         IN  <<IF x < 0 THEN x + Radix ELSE x>>
             \o NatSubBorrow(Tail(a), IF b = <<>> THEN <<>> ELSE Tail(b),
                             IF x < 0 THEN 1 ELSE 0)

\* a - b for a >= b.
NatSub(a, b) == NatTrim(NatSubBorrow(a, b, 0))

RECURSIVE NatCmpFrom(_, _, _)
NatCmpFrom(a, b, k) ==
    IF k = 0 THEN 0
    ELSE IF a[k] # b[k] THEN (IF a[k] < b[k] THEN -1 ELSE 1)
    ELSE NatCmpFrom(a, b, k - 1)

\* -1, 0 or 1 as a is less than, equal to or greater than b.
NatCmp(a, b) ==
    IF Len(a) # Len(b) THEN (IF Len(a) < Len(b) THEN -1 ELSE 1)
    ELSE NatCmpFrom(a, b, Len(a))

RECURSIVE NatMulDigit(_, _, _)
NatMulDigit(a, d, c) ==
    IF a = <<>> THEN (IF c = 0 THEN <<>> ELSE <<c>>)
    ELSE LET x == Head(a) * d + c
         IN  <<x % Radix>> \o NatMulDigit(Tail(a), d, x \div Radix)

\* a * d for 0 <= d < Radix.
NatMulSmall(a, d) == IF d = 0 THEN <<>> ELSE NatMulDigit(a, d, 0)

\* a * Radix^k.
NatShiftDigits(a, k) == IF a = <<>> THEN <<>> ELSE [i \in 1..k |-> 0] \o a

RECURSIVE NatMul(_, _)
NatMul(a, b) ==
    IF a = <<>> \/ b = <<>> THEN <<>>
    ELSE NatAdd(NatMulSmall(a, Head(b)), NatShiftDigits(NatMul(a, Tail(b)), 1))

\* Long division of the digits k, k-1, ..., 1 of a by d, r the remainder so far.
RECURSIVE NatDivFrom(_, _, _, _)
NatDivFrom(a, d, k, r) ==
    IF k = 0 THEN [quot |-> <<>>, rem |-> r]
    ELSE LET x == r * Radix + a[k]
             rest == NatDivFrom(a, d, k - 1, x % d)
         IN  [quot |-> Append(rest.quot, x \div d), rem |-> rest.rem]

\* Quotient and remainder of a by d, 0 < d < Radix.
NatDivSmall(a, d) ==
    LET r == NatDivFrom(a, d, Len(a), 0)
    IN  [quot |-> NatTrim(r.quot), rem |-> r.rem]

RECURSIVE DigitBits(_)
DigitBits(d) == IF d = 0 THEN 0 ELSE 1 + DigitBits(d \div 2)

\* The number of binary digits of a.
NatBits(a) == IF a = <<>> THEN 0 ELSE RadixBits * (Len(a) - 1) + DigitBits(a[Len(a)])

\* a * 2^k and floor(a / 2^k), k >= 0.
NatShl(a, k) == NatShiftDigits(NatMulSmall(a, 2^(k % RadixBits)), k \div RadixBits)

NatShr(a, k) ==
    IF k \div RadixBits >= Len(a) THEN <<>>
    ELSE NatDivSmall(SubSeq(a, k \div RadixBits + 1, Len(a)), 2^(k % RadixBits)).quot

\* The natural nearest to a / 2^k, k >= 0, a tie going to the even one.
NatRoundShr(a, k) ==
    IF k = 0 THEN a
    ELSE LET q == NatShr(a, k)
             c == NatCmp(NatSub(a, NatShl(q, k)), NatShl(<<1>>, k - 1))
         IN  IF c > 0 \/ (c = 0 /\ q # <<>> /\ q[1] % 2 = 1) THEN NatAdd(q, <<1>>) ELSE q

-----------------------------------------------------------------------------
(* Python floats: IEEE 754 doubles with round-to-nearest-even.  The float    *)
(* (-1)^neg * man * 2^exp is [neg, man, exp] with man a natural of           *)
(* MantissaBits binary digits; 0.0 has man = <<>> and exp = 0.  Subnormals,  *)
(* infinities and NaN do not occur at the magnitudes of the program.         *)

MantissaBits == 53

Float(neg, man, exp) == [neg |-> neg, man |-> man, exp |-> exp]

\* The double nearest to (-1)^neg * n * 2^e.
FloatRound(neg, n, e) ==
    IF n = <<>> THEN Float(neg, <<>>, 0)
    ELSE LET k == NatBits(n) - MantissaBits
         IN  IF k <= 0 THEN Float(neg, NatShl(n, 0 - k), e + k)
             ELSE LET q == NatRoundShr(n, k)
                  IN  IF NatBits(q) > MantissaBits
                      THEN Float(neg, NatShr(q, 1), e + k + 1)
                      ELSE Float(neg, q, e + k)

\* float(n) for an integer n.
FloatOfInt(n) == FloatRound(n < 0, NatDigits(IF n < 0 THEN 0 - n ELSE n), 0)

Zero == FloatOfInt(0)
One == FloatOfInt(1)

\* x * y
FloatMul(x, y) == FloatRound(x.neg # y.neg, NatMul(x.man, y.man), x.exp + y.exp)

\* x + y
FloatAdd(x, y) ==
    IF x.man = <<>> /\ y.man = <<>> THEN Float(x.neg /\ y.neg, <<>>, 0)
    ELSE IF x.man = <<>> THEN y
    ELSE IF y.man = <<>> THEN x
    ELSE LET e == IF x.exp < y.exp THEN x.exp ELSE y.exp
             a == NatShl(x.man, x.exp - e)
             b == NatShl(y.man, y.exp - e)
             c == NatCmp(a, b)
         IN  IF x.neg # y.neg /\ c = 0 THEN Float(FALSE, <<>>, 0)
             ELSE FloatRound(IF c >= 0 THEN x.neg ELSE y.neg,
                             IF x.neg = y.neg THEN NatAdd(a, b)
                             ELSE IF c > 0 THEN NatSub(a, b) ELSE NatSub(b, a),
                             e)

\* x / d for an integer d with 0 < |d| < Radix: the quotient of man * Radix^2
\* by |d| has more than MantissaBits + 2 digits, and one more binary digit
\* tells whether a remainder is left.
FloatDivInt(x, d) ==
    LET q == NatDivSmall(NatShiftDigits(x.man, 2), IF d < 0 THEN 0 - d ELSE d)
        n == NatAdd(NatMulSmall(q.quot, 2), IF q.rem = 0 THEN <<>> ELSE <<1>>)
    IN  FloatRound(x.neg # (d < 0), n, x.exp - 2 * RadixBits - 1)

\* The float of the decimal literal n / d (0.575 is Decimal(575, 1000)).
Decimal(n, d) == FloatDivInt(FloatOfInt(n), d)

FloatSign(x) == IF x.man = <<>> THEN 0 ELSE IF x.neg THEN -1 ELSE 1

\* -1, 0 or 1 as x < y, x == y or x > y.
FloatCmp(x, y) ==
    IF FloatSign(x) # FloatSign(y) THEN (IF FloatSign(x) < FloatSign(y) THEN -1 ELSE 1)
    ELSE IF FloatSign(x) = 0 THEN 0
    ELSE IF x.exp # y.exp THEN (IF x.exp < y.exp THEN 0 - FloatSign(x) ELSE FloatSign(x))
    ELSE FloatSign(x) * NatCmp(x.man, y.man)

\* max(a, b): b only when b > a.
Max2(a, b) == IF FloatCmp(b, a) > 0 THEN b ELSE a

\* The integer nearest to n * 2^e, a tie going to the even one.
NatRoundScaled(n, e) ==
    IF e >= 0 THEN NatValue(NatShl(n, e)) ELSE NatValue(NatRoundShr(n, 0 - e))

\* round(x): the integer nearest to x, a tie going to the even one.
FloatRoundInt(x) == (IF x.neg THEN -1 ELSE 1) * NatRoundScaled(x.man, x.exp)

\* The integer nearest to x * s for an integer 0 < s < Radix, computed on the
\* exact product: the digits of f"{x:.1f}" (s = 10) and of round(x, 2) (s = 100).
RoundDecimal(x, s) == (IF x.neg THEN -1 ELSE 1) * NatRoundScaled(NatMulSmall(x.man, s), x.exp)

-----------------------------------------------------------------------------
(* get_weather_factor *)

\* dateparser.parse(when_iso).astimezone(timezone.utc), then "%Y-%m-%d" and
\* "%H:00": the minutes are dropped.  when.local is the wall-clock minute since
\* 2025-11-10T00:00 and when.offset the UTC offset in minutes.
UtcStamp(when) == (when.local - when.offset) \div 60

\* list.index: the 0-based position of the first x in s, -1 for ValueError.
RECURSIVE IndexFrom(_, _, _)
IndexFrom(s, x, k) ==
    IF k > Len(s) THEN -1
    ELSE IF s[k] = x THEN k - 1
    ELSE IndexFrom(s, x, k + 1)

IndexOf(s, x) == IndexFrom(s, x, 1)

\* (data.get(key) or [0]): a missing key, null and the empty list all give [0].
OrZeroList(field) ==
    IF field.kind = "list" /\ field.items # <<>> THEN field.items ELSE <<Num(0)>>

\* (data.get(key) or [0])[idx] or 0
Measure(field, idx) ==
    LET lst == OrZeroList(field)
    IN  IF idx + 1 > Len(lst) THEN Raise("IndexError")
        ELSE IF lst[idx + 1] = Null THEN Ok(0)
        ELSE Ok(lst[idx + 1][1])

\* "if met: factor += n/100" of lines 74-83.
Increase(factor, met, n) == IF met THEN FloatAdd(factor, Decimal(n, 100)) ELSE factor

\* The conditional increments incs[k], incs[k + 1], ... applied to factor in turn.
RECURSIVE IncreaseFrom(_, _, _)
IncreaseFrom(factor, incs, k) ==
    IF k > Len(incs) THEN factor
    ELSE IncreaseFrom(Increase(factor, incs[k][1], incs[k][2]), incs, k + 1)

\* Lines 72-85: factor = 1.0 and the six conditional increments, in source order.
FactorOf(precip, snow, wind, gust) ==
    IncreaseFrom(One, << <<precip >= 50, 10>>, <<precip >= 500, 10>>,
                        <<snow >= 10, 20>>, <<snow >= 100, 30>>,
                        <<wind >= 3000, 5>>, <<gust >= 5000, 10>> >>, 1)

\* r.json().get("hourly", {}): the object under "hourly", {} when the key is missing.
HourlyData(resp) ==
    IF resp.hourly = "absent"
    THEN [time |-> Absent, precipitation |-> Absent, snowfall |-> Absent,
          wind_speed_10m |-> Absent, wind_gusts_10m |-> Absent]
    ELSE [time |-> resp.time, precipitation |-> resp.precipitation,
          snowfall |-> resp.snowfall, wind_speed_10m |-> resp.wind_speed_10m,
          wind_gusts_10m |-> resp.wind_gusts_10m]

\* Lines 66-85, once the hour was found at idx.
FactorAt(data, idx) ==
    LET precip == Measure(data.precipitation, idx)
        snow == Measure(data.snowfall, idx)
        wind == Measure(data.wind_speed_10m, idx)
        gust == Measure(data.wind_gusts_10m, idx)
    IN  IF \E m \in {precip, snow, wind, gust} : m.raised # "none"
        THEN Raise("IndexError")
        ELSE Ok(FactorOf(precip.value, snow.value, wind.value, gust.value))

\* Lines 59-64, and then 66-85.
Lookup(data, stamp) ==
    LET idx == IndexOf(data.time.items, stamp)
    IN  IF idx < 0 THEN Ok(One) ELSE FactorAt(data, idx)

get_weather_factor(resp, when) ==
    IF resp.transport = "unreachable" THEN Raise("ConnectionError")     \* line 54
    ELSE IF resp.transport = "http_error" THEN Raise("HTTPError")       \* line 55
    ELSE IF resp.hourly = "null" THEN Raise("AttributeError")           \* line 59
    ELSE LET data == HourlyData(resp)
         IN  IF data.time.kind = "null" THEN Raise("AttributeError")    \* line 61
             ELSE Lookup(data, UtcStamp(when))


-----------------------------------------------------------------------------
(* The provider's answers the model draws. *)

\* The times a provider answer lists: the first len hours of 2025-11-10.
HourPrefix(len) == [k \in 1..len |-> k - 1]

\* A measurement list of len entries, v at position pos (1-based), 0 elsewhere.
MkList(len, pos, v) == [k \in 1..len |-> IF k = pos THEN v ELSE Num(0)]

TimeFields == {Absent, NullField} \cup {List(HourPrefix(len)) : len \in 0..MaxHours}

Whens == {[local |-> 60 * h + 15, offset |-> o] : h \in 0..(MaxHours - 1), o \in {0, -60}}

PrecipVals == {Null, Num(49), Num(50), Num(500)}
SnowVals == {Null, Num(9), Num(10), Num(100)}
WindVals == {Null, Num(2999), Num(3000)}
GustVals == {Null, Num(4999), Num(5000)}

MeasureFields(vals, len, pos) ==
    {Absent, NullField, List(<<>>)} \cup {List(MkList(len, pos, v)) : v \in vals}

NoBody(transport, hourly) ==
    [transport |-> transport, hourly |-> hourly, time |-> Absent,
     precipitation |-> Absent, snowfall |-> Absent,
     wind_speed_10m |-> Absent, wind_gusts_10m |-> Absent]

\* The answers with an "hourly" object whose time list is t; the measurement the
\* code reads for stamp sits at the position of stamp in t (the first, if none).
Bodies(t, stamp) ==
    LET len == Len(t.items)
        idx == IndexOf(t.items, stamp)
        pos == IF idx < 0 THEN 1 ELSE idx + 1
    IN  {[transport |-> "ok", hourly |-> "dict", time |-> t,
          precipitation |-> p, snowfall |-> s,
          wind_speed_10m |-> w, wind_gusts_10m |-> g] :
            p \in MeasureFields(PrecipVals, len, pos),
            s \in MeasureFields(SnowVals, len, pos),
            w \in MeasureFields(WindVals, len, pos),
            g \in MeasureFields(GustVals, len, pos)}

Responses(when) ==
    {NoBody("unreachable", "absent"), NoBody("http_error", "absent"),
     NoBody("ok", "absent"), NoBody("ok", "null")}
    \cup UNION {Bodies(t, UtcStamp(when)) : t \in TimeFields}

Pending == [raised |-> "pending", value |-> <<>>]

-----------------------------------------------------------------------------
(* Specification of get_weather_factor alone. *)

InitWeather ==
    /\ pc = "weather_call"
    /\ err = "none"
    /\ stops = <<>>
    /\ speed = 0
    /\ base = <<>>
    /\ responses = <<>>
    /\ factors = <<>>
    /\ weather_adj = <<>>
    /\ time_matrix = <<>>
    /\ start_index = 0
    /\ solution = <<>>
    /\ order = <<>>
    /\ total_minutes = Zero
    /\ output = <<>>
    /\ w_when \in Whens
    /\ w_resp \in Responses(w_when)
    /\ w_result = Pending

WeatherCall ==
    /\ pc = "weather_call"
    /\ w_result' = get_weather_factor(w_resp, w_when)
    /\ pc' = "weather_done"
    /\ UNCHANGED <<err, stops, speed, base, responses, factors, weather_adj,
                   time_matrix, start_index, solution, order, total_minutes,
                   output, w_resp, w_when>>

SpecWeather == InitWeather /\ [][WeatherCall]_vars


-----------------------------------------------------------------------------
(* Stops, haversine_km and build_base_time_matrix *)

\* The "when" of a stop (line 7): an ISO8601 time, as UtcStamp reads it; the
\* empty string; or none, for a missing key and for None.
Iso(local, offset) == [kind |-> "iso", at |-> [local |-> local, offset |-> offset]]
EmptyWhen == [kind |-> "empty", at |-> [local |-> 0, offset |-> 0]]
NoWhen == [kind |-> "none", at |-> [local |-> 0, offset |-> 0]]

\* Lines 8-13.  lat and lon in 1/10000 degree.
StopTable ==
    << [name |-> "Depot",  lat |-> 411176, lon |-> -850689,
        when |-> Iso(480, -300)],
       [name |-> "Stop A", lat |-> 411802, lon |-> -849960,
        when |-> Iso(495, -300)],
       [name |-> "Stop B", lat |-> 410953, lon |-> -851394,
        when |-> Iso(510, -300)],
       [name |-> "Stop C", lat |-> 412281, lon |-> -850111,
        when |-> Iso(525, -300)] >>

\* haversine_km between the coordinates of the stops of lines 8-13, in km: a
\* table of the floats the function computes (R = 6371.0088).
HaversineTable ==
    {<<411176, -850689, 411802, -849960,
       Float(FALSE, <<24975, 3453, 4201, 148>>, -49)>>,     \* 9.258012972641863
     <<411802, -849960, 411176, -850689,
       Float(FALSE, <<24975, 3453, 4201, 148>>, -49)>>,
     <<411176, -850689, 410953, -851394,
       Float(FALSE, <<19913, 31973, 32672, 204>>, -50)>>,   \* 6.4061593778200825
     <<410953, -851394, 411176, -850689,
       Float(FALSE, <<19913, 31973, 32672, 204>>, -50)>>,
     <<411176, -850689, 412281, -850111,
       Float(FALSE, <<14965, 1792, 9261, 211>>, -49)>>,     \* 13.205164060023188
     <<412281, -850111, 411176, -850689,
       Float(FALSE, <<14965, 1792, 9261, 211>>, -49)>>,
     <<411802, -849960, 410953, -851394,
       Float(FALSE, <<19035, 16432, 13300, 244>>, -49)>>,   \* 15.275368693318503
     <<410953, -851394, 411802, -849960,
       Float(FALSE, <<19035, 16432, 13300, 244>>, -49)>>,
     <<411802, -849960, 412281, -850111,
       Float(FALSE, <<5975, 15537, 5507, 175>>, -50)>>,     \* 5.47400233665197
     <<412281, -850111, 411802, -849960,
       Float(FALSE, <<5975, 15537, 5507, 175>>, -50)>>,
     <<410953, -851394, 412281, -850111,
       Float(FALSE, <<628, 24767, 2518, 146>>, -48)>>,      \* 18.25960829097535
     <<412281, -850111, 410953, -851394,
       Float(FALSE, <<628, 24767, 2518, 146>>, -48)>>}

haversine_km(lat1, lon1, lat2, lon2) ==
    IF lat1 = lat2 /\ lon1 = lon2 THEN Zero
    ELSE (CHOOSE e \in HaversineTable :
            e[1] = lat1 /\ e[2] = lon1 /\ e[3] = lat2 /\ e[4] = lon2)[5]

\* Line 33: (km / assumed_speed_kph) * 60.0, for a speed other than 0.
Minutes(km, kph) == FloatMul(FloatDivInt(km, kph), FloatOfInt(60))

\* Lines 25-35.  The division of line 33 is reached only for a pair i # j.
build_base_time_matrix(st, kph) ==
    IF kph = 0 /\ Len(st) >= 2 THEN Raise("ZeroDivisionError")
    ELSE Ok([i \in 1..Len(st) |-> [j \in 1..Len(st) |->
               IF i = j THEN Zero
               ELSE Minutes(haversine_km(st[i].lat, st[i].lon, st[j].lat, st[j].lon), kph)]])

\* Sequences without repetition over the set S, of length len.
RECURSIVE Arrangements(_, _)
Arrangements(S, len) ==
    IF len = 0 THEN {<<>>}
    ELSE UNION {{<<x>> \o p : p \in Arrangements(S \ {x}, len - 1)} : x \in S}

StopLists ==
    UNION {{[k \in 1..len |-> StopTable[a[k]]] : a \in Arrangements(1..Len(StopTable), len)} :
             len \in 0..MaxStopList}

Speeds == {-35, 0, 35, 60}

InitBuild ==
    /\ pc = "build_call"
    /\ err = "none"
    /\ stops \in StopLists
    /\ speed \in Speeds
    /\ base = <<>>
    /\ responses = <<>>
    /\ factors = <<>>
    /\ weather_adj = <<>>
    /\ time_matrix = <<>>
    /\ start_index = 0
    /\ solution = <<>>
    /\ order = <<>>
    /\ total_minutes = Zero
    /\ output = <<>>
    /\ w_when = [local |-> 0, offset |-> 0]
    /\ w_resp = NoBody("ok", "absent")
    /\ w_result = Pending

BuildCall ==
    /\ pc = "build_call"
    /\ LET r == build_base_time_matrix(stops, speed)
       IN  /\ err' = r.raised
           /\ base' = IF r.raised = "none" THEN r.value ELSE <<>>
    /\ pc' = "build_done"
    /\ UNCHANGED <<stops, speed, responses, factors, weather_adj, time_matrix,
                   start_index, solution, order, total_minutes, output,
                   w_resp, w_when, w_result>>

SpecBuild == InitBuild /\ [][BuildCall]_vars

-----------------------------------------------------------------------------
(* apply_weather_to_matrix *)

\* The adjustment with the factor of the origin alone.
ApplyOriginFactor(b, f) ==
    [i \in 1..Len(b) |-> [j \in 1..Len(b) |->
        IF i = j THEN Zero ELSE FloatMul(b[i][j], f[i])]]

\* The adjustment started from a copy of the base matrix: the diagonal is kept.
ApplyKeepDiagonal(b, f) ==
    [i \in 1..Len(b) |-> [j \in 1..Len(b) |->
        IF i = j THEN b[i][j] ELSE FloatMul(b[i][j], Max2(f[i], f[j]))]]

\* Lines 100-112.
apply_weather_to_matrix(b, f) ==
    [i \in 1..Len(b) |-> [j \in 1..Len(b) |->
        IF i = j THEN Zero ELSE FloatMul(b[i][j], Max2(f[i], f[j]))]]

\* Base entries of 0.5 and 31.3 minutes between two stops, and 0.0 or 0.5 from a
\* stop to itself; the factors of a clear hour (1.0), of light rain (1.1) and
\* of every threshold met (1.8500000000000003).
BaseVals == {Decimal(5, 10), Decimal(313, 10)}
DiagonalVals == {Zero, Decimal(5, 10)}
FactorVals == {FactorOf(0, 0, 0, 0), FactorOf(50, 0, 0, 0), FactorOf(500, 100, 3000, 5000)}

SquareMatrices(n, vals) == [1..n -> [1..n -> vals]]

BaseMatrices(n) ==
    {m \in SquareMatrices(n, BaseVals \cup DiagonalVals) :
        \A i, j \in 1..n :
            IF i = j THEN m[i][j] \in DiagonalVals ELSE m[i][j] \in BaseVals}

InitAdjust ==
    /\ pc = "apply_call"
    /\ err = "none"
    /\ stops = <<>>
    /\ speed = 0
    /\ \E n \in 1..MaxAdjN :
          /\ base \in BaseMatrices(n)
          /\ factors \in [1..n -> FactorVals]
    /\ responses = <<>>
    /\ weather_adj = <<>>
    /\ time_matrix = <<>>
    /\ start_index = 0
    /\ solution = <<>>
    /\ order = <<>>
    /\ total_minutes = Zero
    /\ output = <<>>
    /\ w_when = [local |-> 0, offset |-> 0]
    /\ w_resp = NoBody("ok", "absent")
    /\ w_result = Pending

ApplyCall ==
    /\ pc = "apply_call"
    /\ weather_adj' = apply_weather_to_matrix(base, factors)
    /\ pc' = "apply_done"
    /\ UNCHANGED <<err, stops, speed, base, responses, factors, time_matrix,
                   start_index, solution, order, total_minutes, output,
                   w_resp, w_when, w_result>>

SpecAdjust == InitAdjust /\ [][ApplyCall]_vars


-----------------------------------------------------------------------------
(* solve_tsp *)

\* time_matrix[i][j] for the 0-based nodes i and j.
At(m, i, j) == m[i + 1][j + 1]

\* Lines 122-125: int(round(time_matrix[i][j] * 100)).
time_callback(m, i, j) == FloatRoundInt(FloatMul(At(m, i, j), FloatOfInt(100)))

\* The routes of a manager that was not given start_index: the depot is node 0.
ToursFromZero(n, start) ==
    {<<0>> \o p \o <<0>> : p \in Arrangements((0..(n - 1)) \ {0}, n - 1)}

\* Lines 119-120: RoutingIndexManager(n, 1, start_index) and the routing model
\* over it: one vehicle leaves start_index, visits every other node once and
\* ends at start_index.
Tours(n, start) ==
    {<<start>> \o p \o <<start>> : p \in Arrangements((0..(n - 1)) \ {start}, n - 1)}

\* The cost the search sees: the sum of the arc cost evaluator (line 128).
ArcCost(m, tour) ==
    SumSeq([k \in 1..(Len(tour) - 1) |-> time_callback(m, tour[k], tour[k + 1])])

\* Lines 130-135: what the search can assign.  With at most NumStops nodes the
\* 10 seconds of guided local search reach a route of least arc cost; which one
\* among equals is the library's choice.
SolveWithParameters(m, start) ==
    LET priced == {<<t, ArcCost(m, t)>> : t \in Tours(Len(m), start)}
    IN  {p[1] : p \in {q \in priced : \A r \in priced : q[2] <= r[2]}}

\* A solve that returns the empty route instead of raising.
ReturnEmptyRoute == [pc |-> "returned", err |-> "none"]

\* Lines 136-137: no solution raises RuntimeError.
NoSolution == [pc |-> "raised", err |-> "RuntimeError"]

\* The total taken from the integer costs of the search, back in minutes.
TotalFromScaled(m, ord) ==
    FloatDivInt(FloatOfInt(SumSeq([k \in 1..(Len(ord) - 1) |->
                                     time_callback(m, ord[k], ord[k + 1])])), 100)

\* Lines 147-148 from the pair at position k on, total being the sum so far.
RECURSIVE AddPairs(_, _, _, _)
AddPairs(m, ord, k, total) ==
    IF k >= Len(ord) THEN total
    ELSE AddPairs(m, ord, k + 1, FloatAdd(total, At(m, ord[k], ord[k + 1])))

\* Lines 146-148.
TotalMinutes(m, ord) == AddPairs(m, ord, 1, Zero)

\* Line 135, a solution found, and lines 140-141.
SolveFound ==
    /\ pc = "solve"
    /\ \E t \in SolveWithParameters(time_matrix, start_index) :
          solution' = <<t>>
    /\ order' = <<start_index>>
    /\ pc' = "extract"
    /\ UNCHANGED <<err, stops, speed, base, responses, factors, weather_adj,
                   time_matrix, start_index, total_minutes, output,
                   w_resp, w_when, w_result>>

\* Lines 135-137, SolveWithParameters returned None.
SolveNone ==
    /\ pc = "solve"
    /\ solution' = <<>>
    /\ pc' = NoSolution.pc
    /\ err' = NoSolution.err
    /\ UNCHANGED <<stops, speed, base, responses, factors, weather_adj,
                   time_matrix, start_index, order, total_minutes, output,
                   w_resp, w_when, w_result>>

\* Lines 142-144, one turn of the loop: routing.IsEnd is false.
ExtractStep ==
    /\ pc = "extract"
    /\ Len(order) < Len(solution[1])
    /\ order' = Append(order, solution[1][Len(order) + 1])
    /\ UNCHANGED <<pc, err, stops, speed, base, responses, factors, weather_adj,
                   time_matrix, start_index, solution, total_minutes, output,
                   w_resp, w_when, w_result>>

\* Lines 146-150, once routing.IsEnd is true.
ReturnTotal ==
    /\ pc = "extract"
    /\ Len(order) = Len(solution[1])
    /\ total_minutes' = TotalMinutes(time_matrix, order)
    /\ pc' = "returned"
    /\ UNCHANGED <<err, stops, speed, base, responses, factors, weather_adj,
                   time_matrix, start_index, solution, order, output,
                   w_resp, w_when, w_result>>

NumStops == 4

\* 0.004 and 0.006 minute.
TimeVals == {Decimal(4, 1000), Decimal(6, 1000)}

\* 0.575 minute: times 100 the double is 57.49999999999999, not the half.
TieVals == {Decimal(575, 1000)}

\* 0.3, 0.5 and 0.9 minute under the factor of every threshold met; the second
\* is 0.9250000000000002, which times 100 is above the half.
ProductVals ==
    {FloatMul(Decimal(b, 10), FactorOf(500, 100, 3000, 5000)) : b \in {3, 5, 9}}

\* n x n matrices with a zero diagonal and the other entries in vals.
ZeroDiagonal(n, vals) ==
    LET arcs == {a \in (1..n) \X (1..n) : a[1] # a[2]}
    IN  {[i \in 1..n |-> [j \in 1..n |-> IF i = j THEN Zero ELSE f[<<i, j>>]]] :
            f \in [arcs -> vals]}

\* The symmetric ones among them.
SymmetricZeroDiagonal(n, vals) ==
    LET edges == {{a[1], a[2]} : a \in {b \in (1..n) \X (1..n) : b[1] < b[2]}}
    IN  {[i \in 1..n |-> [j \in 1..n |-> IF i = j THEN Zero ELSE f[{i, j}]]] :
            f \in [edges -> vals]}

\* The matrices solve_tsp is given: every zero-diagonal matrix of up to MaxN
\* stops over TimeVals; the symmetric ones of NumStops stops, where an entry
\* may also be 0.0 or one of TieVals; and the symmetric ones over ProductVals.
TimeMatrices ==
    UNION {ZeroDiagonal(n, TimeVals) : n \in 1..MaxN}
    \cup SymmetricZeroDiagonal(NumStops, TimeVals \cup {Zero} \cup TieVals)
    \cup SymmetricZeroDiagonal(NumStops, ProductVals)

InitTsp ==
    /\ pc = "solve"
    /\ err = "none"
    /\ stops = <<>>
    /\ speed = 0
    /\ base = <<>>
    /\ responses = <<>>
    /\ factors = <<>>
    /\ weather_adj = <<>>
    /\ time_matrix \in TimeMatrices
    /\ start_index \in 0..(Len(time_matrix) - 1)
    /\ solution = <<>>
    /\ order = <<>>
    /\ total_minutes = Zero
    /\ output = <<>>
    /\ w_when = [local |-> 0, offset |-> 0]
    /\ w_resp = NoBody("ok", "absent")
    /\ w_result = Pending

NextTsp == SolveFound \/ SolveNone \/ ExtractStep \/ ReturnTotal

SpecTsp == InitTsp /\ [][NextTsp]_vars


-----------------------------------------------------------------------------
(* get_stop_weather_factors and the run of lines 153-162 *)

\* Lines 92 and 95: s.get("when") or default_when, default_when being the
\* "when" of the first stop: None and the empty string are both replaced.
WhenOf(st, k) == IF st[k].when.kind = "iso" THEN st[k].when ELSE st[1].when

\* Line 96 for stop k.  At line 44 dateparser.parse(None) raises TypeError and
\* dateparser.parse('') raises ParserError (a ValueError, outside the try of
\* lines 60-64), both before any request.
FactorCall(st, resps, k) ==
    IF WhenOf(st, k).kind = "none" THEN Raise("TypeError")
    ELSE IF WhenOf(st, k).kind = "empty" THEN Raise("ParserError")
    ELSE get_weather_factor(resps[k], WhenOf(st, k).at)

\* Lines 92-97: stops[0] raises IndexError on the empty list; then the factors
\* in stop order; the first call that raises ends the loop and the exception
\* leaves the function.
get_stop_weather_factors(st, resps) ==
    IF Len(st) = 0 THEN Raise("IndexError")
    ELSE LET results == [k \in 1..Len(st) |-> FactorCall(st, resps, k)]
             failed == {k \in 1..Len(st) : results[k].raised # "none"}
         IN  IF failed # {}
             THEN Raise(results[CHOOSE k \in failed : \A l \in failed : k <= l].raised)
             ELSE Ok([k \in 1..Len(st) |-> results[k].value])

\* A full day's answer: 24 hours, the given measurements at 13:00 UTC, the hour
\* every stop of lines 8-13 is asked for.
Answer(p, s, w, g) ==
    [transport |-> "ok", hourly |-> "dict", time |-> List(HourPrefix(24)),
     precipitation |-> p, snowfall |-> s, wind_speed_10m |-> w, wind_gusts_10m |-> g]

At13(v) == List(MkList(24, 14, v))

\* The answers of the run: no answer, an HTTP error, no hourly data, a clear
\* hour (1.0), light rain (1.1), light snow (1.2), heavy rain with heavy snow
\* and wind (1.7500000000000002), every threshold met (1.8500000000000003),
\* and an answer without the precipitation list.
PipelineResponses ==
    {NoBody("unreachable", "absent"),
     NoBody("http_error", "absent"),
     NoBody("ok", "absent"),
     Answer(At13(Num(0)), At13(Num(0)), At13(Num(0)), At13(Num(0))),
     Answer(At13(Num(50)), At13(Null), At13(Num(2999)), At13(Num(0))),
     Answer(At13(Num(0)), At13(Num(10)), At13(Num(0)), At13(Num(0))),
     Answer(At13(Num(500)), At13(Num(100)), At13(Num(3000)), At13(Num(0))),
     Answer(At13(Num(500)), At13(Num(100)), At13(Num(3000)), At13(Num(5000))),
     Answer(Absent, At13(Num(10)), At13(Num(0)), At13(Num(0)))}

\* The run starts with the stops of lines 8-13 and the answers the provider
\* will give for them.
InitPipeline ==
    /\ pc = "build"
    /\ err = "none"
    /\ stops = StopTable
    /\ speed = 35
    /\ base = <<>>
    /\ responses \in [1..Len(StopTable) -> PipelineResponses]
    /\ factors = <<>>
    /\ weather_adj = <<>>
    /\ time_matrix = <<>>
    /\ start_index = 0
    /\ solution = <<>>
    /\ order = <<>>
    /\ total_minutes = Zero
    /\ output = <<>>
    /\ w_when = [local |-> 0, offset |-> 0]
    /\ w_resp = NoBody("ok", "absent")
    /\ w_result = Pending

\* Line 153.
Build153 ==
    /\ pc = "build"
    /\ LET r == build_base_time_matrix(stops, speed)
       IN  /\ err' = r.raised
           /\ base' = IF r.raised = "none" THEN r.value ELSE <<>>
           /\ pc' = IF r.raised = "none" THEN "factors" ELSE "raised"
    /\ UNCHANGED <<stops, speed, responses, factors, weather_adj, time_matrix,
                   start_index, solution, order, total_minutes, output,
                   w_resp, w_when, w_result>>

\* Line 154.
Factors154 ==
    /\ pc = "factors"
    /\ LET r == get_stop_weather_factors(stops, responses)
       IN  /\ err' = r.raised
           /\ factors' = IF r.raised = "none" THEN r.value ELSE <<>>
           /\ pc' = IF r.raised = "none" THEN "adjust" ELSE "raised"
    /\ UNCHANGED <<stops, speed, base, responses, weather_adj, time_matrix,
                   start_index, solution, order, total_minutes, output,
                   w_resp, w_when, w_result>>

\* Line 155.
Adjust155 ==
    /\ pc = "adjust"
    /\ weather_adj' = apply_weather_to_matrix(base, factors)
    /\ pc' = "call_solve"
    /\ UNCHANGED <<err, stops, speed, base, responses, factors, time_matrix,
                   start_index, solution, order, total_minutes, output,
                   w_resp, w_when, w_result>>

\* Line 156: the call solve_tsp(weather_adj, start_index=0).
Call156 ==
    /\ pc = "call_solve"
    /\ time_matrix' = weather_adj
    /\ start_index' = 0
    /\ pc' = "solve"
    /\ UNCHANGED <<err, stops, speed, base, responses, factors, weather_adj,
                   solution, order, total_minutes, output, w_resp, w_when, w_result>>

\* Line 158.
Print158 ==
    /\ pc = "returned"
    /\ output' = Append(output, <<"Visit order:">>)
    /\ pc' = "print_order"
    /\ UNCHANGED <<err, stops, speed, base, responses, factors, weather_adj,
                   time_matrix, start_index, solution, order, total_minutes,
                   w_resp, w_when, w_result>>

\* Lines 159-160, one turn of the loop: output holds the header and one line
\* for each stop printed so far.
Print160 ==
    /\ pc = "print_order"
    /\ Len(output) - 1 < Len(order)
    /\ LET k == order[Len(output)]
       IN  output' = Append(output, <<"stop", k, stops[k + 1].name>>)
    /\ UNCHANGED <<pc, err, stops, speed, base, responses, factors, weather_adj,
                   time_matrix, start_index, solution, order, total_minutes,
                   w_resp, w_when, w_result>>

\* Line 161: the total with one decimal, as a number of tenths of a minute.
Print161 ==
    /\ pc = "print_order"
    /\ Len(output) - 1 = Len(order)
    /\ output' = Append(output, <<"total", RoundDecimal(total_minutes, 10)>>)
    /\ pc' = "print_factors"
    /\ UNCHANGED <<err, stops, speed, base, responses, factors, weather_adj,
                   time_matrix, start_index, solution, order, total_minutes,
                   w_resp, w_when, w_result>>

\* Line 162: the factors rounded to two decimals, as numbers of hundredths.
Print162 ==
    /\ pc = "print_factors"
    /\ output' = Append(output, <<"factors", [k \in 1..Len(factors) |->
                                                RoundDecimal(factors[k], 100)]>>)
    /\ pc' = "done"
    /\ UNCHANGED <<err, stops, speed, base, responses, factors, weather_adj,
                   time_matrix, start_index, solution, order, total_minutes,
                   w_resp, w_when, w_result>>

NextPipeline ==
    \/ Build153
    \/ Factors154
    \/ Adjust155
    \/ Call156
    \/ SolveFound
    \/ SolveNone
    \/ ExtractStep
    \/ ReturnTotal
    \/ Print158
    \/ Print160
    \/ Print161
    \/ Print162

SpecPipeline == InitPipeline /\ [][NextPipeline]_vars


-----------------------------------------------------------------------------
(* Properties *)

\* ---- solve_tsp (SpecTsp) ----

\* C1: whenever solve_tsp returns, the order has n + 1 entries, begins and ends
\* with start_index, and holds every other index of 0..n-1 exactly once.
C1_TourShape ==
    pc = "returned" =>
        LET n == Len(time_matrix)
        IN  /\ Len(order) = n + 1
            /\ order[1] = start_index
            /\ order[n + 1] = start_index
            /\ \A k \in 1..(n + 1) : order[k] \in 0..(n - 1)
            /\ \A v \in (0..(n - 1)) \ {start_index} :
                  Cardinality({k \in 1..(n + 1) : order[k] = v}) = 1

C1_Witness ==
    /\ pc = "returned"
    /\ Len(time_matrix) = NumStops
    /\ start_index = 2
    /\ Len(order) = NumStops + 1
    /\ order[2] # 0

\* The float sum of m over the first k consecutive pairs of ord, left to right.
RECURSIVE PathSumTo(_, _, _)
PathSumTo(m, ord, k) ==
    IF k = 0 THEN Zero
    ELSE FloatAdd(PathSumTo(m, ord, k - 1), m[ord[k] + 1][ord[k + 1] + 1])

PathSum(m, ord) == PathSumTo(m, ord, Len(ord) - 1)

\* C6: the total solve_tsp returns is the sum of the unscaled time_matrix[a][b]
\* over the consecutive pairs (a, b) of the returned order.
C6_TotalUnscaled ==
    pc = "returned" => total_minutes = PathSum(time_matrix, order)

\* A returned route on which the rounded integer costs add up to another total.
C6_Witness ==
    /\ pc = "returned"
    /\ Len(order) >= 4
    /\ total_minutes = PathSum(time_matrix, order)
    /\ total_minutes # FloatDivInt(FloatOfInt(ArcCost(time_matrix, order)), 100)

\* C7: for 4 stops the reported total is the least total of all closed tours
\* from start_index through every other stop.
C7_Optimal4 ==
    (pc = "returned" /\ Len(time_matrix) = 4) =>
        \A u \in Tours(4, start_index) :
            FloatCmp(total_minutes, PathSum(time_matrix, u)) <= 0

\* ---- get_weather_factor (SpecWeather) ----

\* The answer arrived and the requested hour is in no entry of its time list:
\* the list does not hold it, or there is no time list (the key is missing or
\* null), or there is no hourly data at all (the key is missing or null).
HourMissing ==
    /\ w_resp.transport = "ok"
    /\ \/ w_resp.hourly \in {"absent", "null"}
       \/ w_resp.time.kind # "list"
       \/ \A k \in 1..Len(w_resp.time.items) :
              w_resp.time.items[k] # UtcStamp(w_when)

\* C3: when the requested hour is not in the time list of the answer, an answer
\* with no hourly data at all included, get_weather_factor returns exactly 1.0
\* and raises nothing, whatever the other fields of the answer are.
C3_MissingHourNeutral ==
    (pc = "weather_done" /\ HourMissing) => w_result = Ok(One)

\* The measurement at position k of a field; missing, null and short count as 0.
Reading(field, k) ==
    IF field.kind = "list" /\ k <= Len(field.items) /\ field.items[k] # Null
    THEN field.items[k][1]
    ELSE 0

\* C5: when the requested hour is present, the factor is 1.0 plus every increment
\* whose threshold is met (to the hundredth: the float sum of all six is
\* 1.8500000000000003), a missing or null measurement counting as 0.
C5_StackedIncrements ==
    (/\ pc = "weather_done"
     /\ w_resp.transport = "ok"
     /\ w_resp.hourly = "dict"
     /\ w_resp.time.kind = "list"
     /\ \E k \in 1..Len(w_resp.time.items) : w_resp.time.items[k] = UtcStamp(w_when))
    =>
        LET k == CHOOSE j \in 1..Len(w_resp.time.items) :
                    /\ w_resp.time.items[j] = UtcStamp(w_when)
                    /\ \A l \in 1..(j - 1) : w_resp.time.items[l] # UtcStamp(w_when)
            precip == Reading(w_resp.precipitation, k)
            snow == Reading(w_resp.snowfall, k)
            wind == Reading(w_resp.wind_speed_10m, k)
            gust == Reading(w_resp.wind_gusts_10m, k)
        IN  /\ w_result.raised = "none"
            /\ RoundDecimal(w_result.value, 100) =
                  100 + (IF precip >= 50 THEN 10 ELSE 0) + (IF precip >= 500 THEN 10 ELSE 0)
                      + (IF snow >= 10 THEN 20 ELSE 0) + (IF snow >= 100 THEN 30 ELSE 0)
                      + (IF wind >= 3000 THEN 5 ELSE 0) + (IF gust >= 5000 THEN 10 ELSE 0)
            /\ FloatCmp(w_result.value, One) >= 0
            /\ RoundDecimal(w_result.value, 100) <= 185

\* ---- apply_weather_to_matrix (SpecAdjust) ----

\* C4: the result is n x n, its entry (i, j) is base(i, j) times the larger of
\* factor(i) and factor(j) for i # j, and 0 for i = j whatever base(i, i) is.
C4_AdjustedEntries ==
    pc = "apply_done" =>
        /\ Len(weather_adj) = Len(base)
        /\ \A i \in 1..Len(base) :
              /\ Len(weather_adj[i]) = Len(base)
              /\ weather_adj[i][i] = Zero
              /\ \A j \in (1..Len(base)) \ {i} :
                    \E f \in {factors[i], factors[j]} :
                        /\ FloatCmp(f, factors[i]) >= 0
                        /\ FloatCmp(f, factors[j]) >= 0
                        /\ weather_adj[i][j] = FloatMul(base[i][j], f)

C4_Witness ==
    /\ pc = "apply_done"
    /\ Len(base) = 2
    /\ base[1][1] # Zero
    /\ base[1][2] # Zero
    /\ FloatCmp(factors[1], factors[2]) < 0
    /\ weather_adj[1][1] = Zero
    /\ weather_adj[1][2] = FloatMul(base[1][2], factors[2])

\* C10: a symmetric base matrix gives a symmetric adjusted matrix.
C10_SymmetryPreserved ==
    (/\ pc = "apply_done"
     /\ \A i, j \in 1..Len(base) : base[i][j] = base[j][i])
    => \A i, j \in 1..Len(weather_adj) : weather_adj[i][j] = weather_adj[j][i]

C10_Witness ==
    /\ pc = "apply_done"
    /\ Len(base) = 2
    /\ base[1][2] = base[2][1]
    /\ base[1][1] = base[2][2]
    /\ base[1][2] # Zero
    /\ factors[1] # factors[2]
    /\ weather_adj[1][2] = weather_adj[2][1]

\* ---- build_base_time_matrix (SpecBuild) ----

\* C8: for a speed <= 0 the function fails with InvalidSpeed and gives no matrix.
C8_InvalidSpeed ==
    (pc = "build_done" /\ speed <= 0) => (err = "InvalidSpeed" /\ base = <<>>)

\* ---- the run (SpecPipeline) ----

\* C2: a stop whose lookup fails in transport gets the factor 1.0 and the run
\* goes on: no transport exception ends it, and the stop's factor is 1.0.
C2_DegradedLookup ==
    \A k \in 1..Len(responses) :
        responses[k].transport # "ok" =>
            /\ err \notin {"ConnectionError", "HTTPError"}
            /\ (pc \notin {"build", "factors"} => (Len(factors) >= k /\ factors[k] = One))

CompleteTour(ord, n, start) ==
    /\ Len(ord) = n + 1
    /\ ord[1] = start
    /\ ord[n + 1] = start
    /\ {ord[k] : k \in 1..n} = 0..(n - 1)

\* C9: something is printed only once solve_tsp has returned a complete tour;
\* when the solver found nothing the run has raised RuntimeError with no route
\* extracted and nothing printed.
C9_NoPartialResult ==
    /\ output # <<>> =>
          /\ err = "none"
          /\ pc \in {"print_order", "print_factors", "done"}
          /\ solution # <<>>
          /\ CompleteTour(order, Len(stops), start_index)
          /\ total_minutes = PathSum(time_matrix, order)
    /\ (pc \in {"solve", "extract"} \/ err # "none") => output = <<>>
    /\ err = "RuntimeError" => (pc = "raised" /\ order = <<>> /\ output = <<>>)

\* The solver found nothing and the run has ended in the RuntimeError.
C9_Witness ==
    /\ pc = "raised"
    /\ err = "RuntimeError"
    /\ solution = <<>>
    /\ order = <<>>
    /\ output = <<>>
    /\ weather_adj # <<>>


====
